---- MODULE Spec2Model ----
(***************************************************************************)
(* Model of the authentication service of ViaTex/server                    *)
(* (src/src/modules/auth/auth.service.ts with the helpers of               *)
(* src/src/utils/auth.utils.ts and the configuration of                    *)
(* src/unnamed/part_005).                                                  *)
(*                                                                         *)
(* The durable store (users, auth_tokens, password_resets, audit_logs) is  *)
(* the shared state.  Every request runs in a slot; a slot's program       *)
(* counter says which store operation the handler issues next.  One action *)
(* is one store operation of a handler together with the synchronous code  *)
(* around it, which is how the Node.js event loop interleaves handlers.    *)
(* A specification with one slot runs the handlers one after the other; a  *)
(* specification with two slots interleaves them at the store operations.  *)
(* Spec runs every handler, one request at a time; SpecLock the handlers   *)
(* that read or write an account's lock state; SpecRefresh those that read *)
(* or write refresh records; SpecRace and SpecLockRace run two refreshes   *)
(* and two logins at a time.                                               *)
(*                                                                         *)
(* Times are milliseconds since the start of the run.  ipAddress and       *)
(* userAgent are stored and never read: the model leaves them out.         *)
(***************************************************************************)
EXTENDS Integers, Sequences, FiniteSets, TLC

(***************************************************************************)
(* Bounds of the model.                                                    *)
(***************************************************************************)
\* Spec, SpecLock, SpecLockRace: one account, enough failed logins to lock it,
\* let the lock run out and lock it again
MaxUsers == 1
MaxTokens == 2
MaxResets == 1
MaxAudit == 1
MaxTicks == 1
MaxCounter == 6
\* SpecRefresh: one request at a time, two accounts
RefreshMaxUsers == 2
RefreshMaxTokens == 3
\* SpecRace: two refreshes at a time, one account
RaceMaxTokens == 3
\* SpecLockRace: two logins at a time, one account
RaceMaxCounter == 5
RaceMaxAudit == 0
ResetMaxUsers == 2
ResetMaxTokens == 3
ResetMaxResets == 2
ResetMaxAudit == 0
SignupMaxUsers == 2
SignupMaxTokens == 2
SoftDeleteMaxUsers == 2
SoftDeleteMaxTokens == 3
MaxPwLen == 4
JwtMaxUsers == 2
JwtMaxTokens == 2
JwtMaxTicks == 2
FrameMaxUsers == 2
FrameMaxTokens == 3
FrameMaxAudit == 0
FrameMaxCounter == 1

(***************************************************************************)
(* Program constants.                                                      *)
(***************************************************************************)
maxLoginAttempts == 5
lockoutDuration == 900000
resetTokenTtl == 3600000
MsPerSecond == 1000
MsPerMinute == 60000
MinPasswordLength == 8

\* null of a nullable DateTime column; every real time is >= 0
Null == -1

jwtAccessExpiresIn == [num |-> 15, unit |-> "m"]
jwtRefreshExpiresIn == [num |-> 7, unit |-> "d"]

Roles == {"STUDENT", "CORPORATE", "UNIVERSITY", "MENTOR", "ADMIN"}
AccountStatuses ==
  {"PENDING_EMAIL_VERIFICATION", "PENDING_APPROVAL", "ACTIVE", "SUSPENDED", "DELETED"}

(***************************************************************************)
(* Characters.  A string of the program is a sequence of one-character     *)
(* strings.                                                                *)
(***************************************************************************)
UpperLetters ==
  <<"A","B","C","D","E","F","G","H","I","J","K","L","M",
    "N","O","P","Q","R","S","T","U","V","W","X","Y","Z">>
LowerLetters ==
  <<"a","b","c","d","e","f","g","h","i","j","k","l","m",
    "n","o","p","q","r","s","t","u","v","w","x","y","z">>
DigitChars == {"0","1","2","3","4","5","6","7","8","9"}
SpecialChars ==
  {"!","@","#","$","%","^","&","*","(",")","_","+","-","=","[","]","{","}",
   ";","'",":","\"","\\","|",",",".","<",">","/","?"}
WhitespaceChars == {" ", "\t", "\n"}

Range(s) == {s[i] : i \in DOMAIN s}

ToLowerChar(c) ==
  IF \E i \in DOMAIN UpperLetters : UpperLetters[i] = c
  THEN LowerLetters[CHOOSE i \in DOMAIN UpperLetters : UpperLetters[i] = c]
  ELSE c

ToLowerCase(s) == [i \in DOMAIN s |-> ToLowerChar(s[i])]

RECURSIVE TrimStart(_)
TrimStart(s) ==
  IF s # <<>> /\ Head(s) \in WhitespaceChars THEN TrimStart(Tail(s)) ELSE s

RECURSIVE TrimEnd(_)
TrimEnd(s) ==
  IF s # <<>> /\ s[Len(s)] \in WhitespaceChars
  THEN TrimEnd(SubSeq(s, 1, Len(s) - 1))
  ELSE s

Trim(s) == TrimEnd(TrimStart(s))

\* email.toLowerCase().trim()
normalizeEmail(email) == Trim(ToLowerCase(email))

\* one or more characters, none of them whitespace or "@": [^\s@]+
EmailPart(s) == s # <<>> /\ \A i \in DOMAIN s : s[i] \notin WhitespaceChars \cup {"@"}

\* /^[^\s@]+@[^\s@]+\.[^\s@]+$/
isValidEmail(email) ==
  \E i \in DOMAIN email : \E j \in DOMAIN email :
    /\ i < j
    /\ email[i] = "@"
    /\ email[j] = "."
    /\ EmailPart(SubSeq(email, 1, i - 1))
    /\ EmailPart(SubSeq(email, i + 1, j - 1))
    /\ EmailPart(SubSeq(email, j + 1, Len(email)))

(***************************************************************************)
(* Passwords.                                                              *)
(***************************************************************************)
\* bcrypt with a fresh salt: the hash determines the password it was made of
\* and nothing else can be compared with it
hashPassword(password) == [alg |-> "bcrypt", of |-> password]

verifyPassword(password, passwordHash) == passwordHash.of = password

\* PasswordErrors stopping at the first rule that is broken
PasswordErrors_FirstOnly(password) ==
  IF password = <<>> THEN <<"Password is required">>
  ELSE IF Len(password) < MinPasswordLength
    THEN <<"Password must be at least 8 characters long">>
  ELSE IF Range(password) \cap Range(UpperLetters) = {}
    THEN <<"Password must contain at least one uppercase letter">>
  ELSE IF Range(password) \cap Range(LowerLetters) = {}
    THEN <<"Password must contain at least one lowercase letter">>
  ELSE IF Range(password) \cap DigitChars = {}
    THEN <<"Password must contain at least one number">>
  ELSE IF Range(password) \cap SpecialChars = {}
    THEN <<"Password must contain at least one special character">>
  ELSE <<>>

PasswordErrors(password) ==
  IF password = <<>> THEN <<"Password is required">>
  ELSE
    (IF Len(password) < MinPasswordLength
       THEN <<"Password must be at least 8 characters long">> ELSE <<>>)
    \o (IF Range(password) \cap Range(UpperLetters) = {}
       THEN <<"Password must contain at least one uppercase letter">> ELSE <<>>)
    \o (IF Range(password) \cap Range(LowerLetters) = {}
       THEN <<"Password must contain at least one lowercase letter">> ELSE <<>>)
    \o (IF Range(password) \cap DigitChars = {}
       THEN <<"Password must contain at least one number">> ELSE <<>>)
    \o (IF Range(password) \cap SpecialChars = {}
       THEN <<"Password must contain at least one special character">> ELSE <<>>)

validatePasswordStrength(password) ==
  [isValid |-> PasswordErrors(password) = <<>>, errors |-> PasswordErrors(password)]

(***************************************************************************)
(* Roles and durations.                                                    *)
(***************************************************************************)
\* getDefaultAccountStatus without the case of the mentor
getDefaultAccountStatus_AlwaysActive(role) == "ACTIVE"

getDefaultAccountStatus(role) ==
  IF role = "MENTOR" THEN "PENDING_APPROVAL" ELSE "ACTIVE"

\* canSelfRegister letting every role in
canSelfRegister_Anyone(role) == TRUE

canSelfRegister(role) == role # "ADMIN"

getExpirationInSeconds(expiresIn) ==
  CASE expiresIn.unit = "s" -> expiresIn.num
    [] expiresIn.unit = "m" -> expiresIn.num * 60
    [] expiresIn.unit = "h" -> expiresIn.num * 60 * 60
    [] expiresIn.unit = "d" -> expiresIn.num * 24 * 60 * 60

\* now.setSeconds/setMinutes/setHours/setDate(now.get...() + num)
getExpirationDate(expiresIn, t) ==
  CASE expiresIn.unit = "s" -> t + expiresIn.num * MsPerSecond
    [] expiresIn.unit = "m" -> t + expiresIn.num * MsPerMinute
    [] expiresIn.unit = "h" -> t + expiresIn.num * 60 * MsPerMinute
    [] expiresIn.unit = "d" -> t + expiresIn.num * 24 * 60 * MsPerMinute

\* Math.ceil(a / b) for a >= 0, b > 0
CeilDiv(a, b) == (a + b - 1) \div b

(***************************************************************************)
(* Tokens.                                                                 *)
(***************************************************************************)
NoToken == [secret |-> "none"]
NoClaims == [none |-> TRUE]

\* The HMAC of a JWT: made of the secret and the claims, and the same only for
\* the same secret and the same claims.
HS256(secret, claims) == [alg |-> "HS256", secret |-> secret, of |-> claims]

\* a JWT is its claims and the signature over them
Jwt(claims, secret) == claims @@ [sig |-> HS256(secret, claims)]
Claims(token) == [f \in DOMAIN token \ {"sig"} |-> token[f]]

\* jwt.sign(payload, config.jwtSecret, {expiresIn}) at time t
generateAccessToken(payload, t) ==
  Jwt([userId |-> payload.userId, email |-> payload.email,
       role |-> payload.role, iat |-> t \div MsPerSecond,
       exp |-> (t \div MsPerSecond) + getExpirationInSeconds(jwtAccessExpiresIn)],
      "jwtSecret")

\* jwt.sign(payload, config.jwtRefreshSecret, {expiresIn}) at time t
generateRefreshToken(payload, t) ==
  Jwt([userId |-> payload.userId,
       tokenId |-> payload.tokenId, iat |-> t \div MsPerSecond,
       exp |-> (t \div MsPerSecond) + getExpirationInSeconds(jwtRefreshExpiresIn)],
      "jwtRefreshSecret")

VerifyResult(ok, decoded, error) == [ok |-> ok, decoded |-> decoded, error |-> error]

\* verifyAccessToken taking any signature
verifyAccessToken_AnySignature(token, t) ==
  IF "sig" \notin DOMAIN token
    THEN VerifyResult(FALSE, NoClaims, "Invalid access token")
  ELSE IF t \div MsPerSecond >= token.exp
    THEN VerifyResult(FALSE, NoClaims, "Access token has expired")
  ELSE VerifyResult(TRUE, Claims(token), "")

\* jwt.verify(token, config.jwtSecret) at time t: the signature first
\* (JsonWebTokenError), then exp against the clock in seconds
\* (TokenExpiredError)
verifyAccessToken(token, t) ==
  IF "sig" \notin DOMAIN token \/ token.sig # HS256("jwtSecret", Claims(token))
    THEN VerifyResult(FALSE, NoClaims, "Invalid access token")
  ELSE IF t \div MsPerSecond >= token.exp
    THEN VerifyResult(FALSE, NoClaims, "Access token has expired")
  ELSE VerifyResult(TRUE, Claims(token), "")

\* a string no handler ever returned as a refresh token
BogusToken == [secret |-> "bogus"]

\* crypto.randomBytes(32).toString('hex'): 256 fresh bits, a value no earlier
\* call returned.  n names the draw: the id of the row the value is made for, or
\* 0 for a value that is returned and never stored.
generateRandomToken(purpose, n) == [random |-> purpose, n |-> n]
\* a reset token no call of generateRandomToken returned
BogusResetToken == [random |-> "bogus", n |-> 0]

\* bcrypt with a fresh salt, as hashPassword
hashToken(token) == [alg |-> "bcrypt", of |-> token]

(***************************************************************************)
(* Errors: the message of the Error a handler throws.  errors holds the    *)
(* parts a message is joined from, minutes the number a message embeds.    *)
(***************************************************************************)
NoError == [msg |-> "", errors |-> <<>>, minutes |-> 0]
Err(m) == [msg |-> m, errors |-> <<>>, minutes |-> 0]
ErrJoined(es) == [msg |-> "joined", errors |-> es, minutes |-> 0]
ErrLocked(mins) ==
  [msg |-> "Account is locked. Try again in N minutes", errors |-> <<>>, minutes |-> mins]

MsgInvalidCredentials == "Invalid email or password"
MsgLocked == "Account is locked. Try again in N minutes"
MsgTokenUsed == "Refresh token has been used. Please login again"
MsgTokenInvalid == "Invalid or expired refresh token"
MsgNotActive == "User account is not active"
MsgRecordNotFound == "Record to update not found"
MsgUniqueConstraint == "Unique constraint failed"
MsgResetInvalid == "Invalid or expired reset token"

(***************************************************************************)
(* Inputs.                                                                 *)
(***************************************************************************)
EmailA == <<"a", "@", "x", ".", "c">>
EmailAShout == <<" ", "A", "@", "X", ".", "c", " ">>
EmailB == <<"b", "@", "x", ".", "c">>
EmailBad == <<"a", "x", ".", "c">>
Emails == {EmailA, EmailAShout, EmailB, EmailBad}

PwStrong == <<"S", "e", "c", "u", "r", "e", "@", "1">>
PwStrong2 == <<"N", "e", "w", "p", "a", "s", "s", "#", "9">>
PwWeak == <<"w", "r", "o", "n", "g">>
Passwords == {PwStrong, PwStrong2, PwWeak}
\* the requests of a run: accounts are opened with PwStrong, moved to PwStrong2
SignupPasswords == {PwStrong, PwWeak}
LoginPasswords == {PwStrong, PwStrong2}
ResetPasswords == {PwStrong2, PwWeak}
\* CORPORATE and UNIVERSITY take the branches of STUDENT everywhere
SignupRoles == {"STUDENT", "MENTOR", "ADMIN"}

(***************************************************************************)
(* State.                                                                  *)
(*   users, authTokens, passwordResets, auditLogs: the tables of the store *)
(*   nextId: the ids the store hands out next (ids are never reused)       *)
(*   now: the clock                                                        *)
(*   pc, req: per slot, the handler's position and its locals              *)
(*   issued: the refresh tokens handed to clients so far                   *)
(*   redeemed: the refresh tokens presented in a refresh that succeeded    *)
(*   fails: per account, the run of wrong-password outcomes since the      *)
(*          last successful login (streak), the time of the last of them   *)
(*          (at), the time the last of them that locked did so (lockedAt), *)
(*          and the loginAttempts the last login write stored (written)    *)
(*   cap: the bounds of the run (never changes)                            *)
(***************************************************************************)
VARIABLES users, authTokens, passwordResets, auditLogs, nextId, now, pc, req,
          issued, redeemed, fails, cap

vars == <<users, authTokens, passwordResets, auditLogs, nextId, now, pc, req,
          issued, redeemed, fails, cap>>

store == <<users, authTokens, passwordResets, auditLogs, nextId>>
ghost == <<issued, redeemed, fails, cap>>

Slots == DOMAIN pc

NoUser == [id |-> 0]
IdleReq == [op |-> "none"]

\* prisma.user.findUnique({ where: { email } })
FindUserByEmail(email) ==
  IF \E i \in DOMAIN users : users[i].email = email
  THEN users[CHOOSE i \in DOMAIN users : users[i].email = email]
  ELSE NoUser

\* slots that are about to create a row of the table
PendingTokens == Cardinality({q \in Slots : pc[q] \in {"s_create", "tokens", "l_reset", "r_mark"}})
PendingUsers == Cardinality({q \in Slots : pc[q] = "s_create"})
PendingResets == Cardinality({q \in Slots : pc[q] \in {"g_delete", "g_create"}})
RoomForToken == nextId.token + PendingTokens <= cap.tokens
RoomForUser == Len(users) + PendingUsers < cap.users
RoomForReset == nextId.reset + PendingResets <= cap.resets

Finish(self, r) ==
  /\ pc' = [pc EXCEPT ![self] = "done"]
  /\ req' = [req EXCEPT ![self] = r]

Goto(self, label, r) ==
  /\ pc' = [pc EXCEPT ![self] = label]
  /\ req' = [req EXCEPT ![self] = r]

\* the steps of the clock and how many of them led to time t
RefreshLifetime == getExpirationDate(jwtRefreshExpiresIn, 0)
TicksOf(t) == (t \div RefreshLifetime) + ((t % RefreshLifetime) \div lockoutDuration)

\* the slots of a specification
OneSlot == {1}
TwoSlots == {1, 2}

InitWith(slots, caps) ==
  /\ cap = caps
  /\ users = <<>>
  /\ authTokens = <<>>
  /\ passwordResets = <<>>
  /\ auditLogs = <<>>
  /\ nextId = [token |-> 1, reset |-> 1]
  /\ now = 0
  /\ pc = [p \in slots |-> "idle"]
  /\ req = [p \in slots |-> IdleReq]
  /\ issued = {}
  /\ redeemed = {}
  /\ fails = <<>>

Init ==
  InitWith(OneSlot, [users |-> MaxUsers, tokens |-> MaxTokens, resets |-> MaxResets,
                 audit |-> MaxAudit, ticks |-> MaxTicks, counter |-> MaxCounter,
                 steps |-> {lockoutDuration}, emails |-> Emails, roles |-> SignupRoles])

\* one address in two spellings and a malformed one, the clock in half lock windows
InitLock ==
  InitWith(OneSlot, [users |-> MaxUsers, tokens |-> MaxTokens, resets |-> MaxResets,
                 audit |-> MaxAudit, ticks |-> MaxTicks, counter |-> MaxCounter,
                 steps |-> {lockoutDuration \div 2},
                 emails |-> {EmailA, EmailAShout, EmailBad}, roles |-> SignupRoles])

\* two logins at a time
InitLockRace ==
  InitWith(TwoSlots, [users |-> MaxUsers, tokens |-> MaxTokens, resets |-> MaxResets,
                    audit |-> RaceMaxAudit, ticks |-> MaxTicks,
                    counter |-> RaceMaxCounter, steps |-> {lockoutDuration},
                    emails |-> {EmailA}, roles |-> {"STUDENT", "ADMIN"}])

InitRefresh ==
  InitWith(OneSlot, [users |-> RefreshMaxUsers, tokens |-> RefreshMaxTokens,
                 resets |-> MaxResets, audit |-> MaxAudit, ticks |-> MaxTicks,
                 counter |-> MaxCounter, steps |-> {RefreshLifetime}, emails |-> Emails, roles |-> SignupRoles])

InitRace ==
  InitWith(TwoSlots, [users |-> MaxUsers, tokens |-> RaceMaxTokens,
                    resets |-> MaxResets, audit |-> MaxAudit, ticks |-> MaxTicks,
                    counter |-> MaxCounter, steps |-> {RefreshLifetime}, emails |-> Emails, roles |-> SignupRoles])

(***************************************************************************)
(* The clock.  A step of lockoutDuration ends a lock window and no token;  *)
(* a step of the refresh lifetime ends every window and token.  The clock  *)
(* moves between requests: a handler reads one time throughout.            *)
(***************************************************************************)
Tick ==
  /\ TicksOf(now) < cap.ticks
  /\ \A p \in Slots : pc[p] = "idle"
  /\ \E d \in cap.steps : now' = now + d
  /\ UNCHANGED <<store, pc, req, ghost>>

\* the response has been sent: the slot is free again
Return(self) ==
  /\ pc[self] = "done"
  /\ pc' = [pc EXCEPT ![self] = "idle"]
  /\ req' = [req EXCEPT ![self] = IdleReq]
  /\ UNCHANGED <<store, now, ghost>>

(***************************************************************************)
(* generateTokens: the create of the refresh record and the two JWTs.      *)
(* signup, login and refreshAccessToken all end in it.                     *)
(***************************************************************************)
NewAuthToken(userId, random, t) ==
  [userId |-> userId, token |-> hashToken(random), type |-> "REFRESH",
   expiresAt |-> getExpirationDate(jwtRefreshExpiresIn, t),
   used |-> FALSE, usedAt |-> Null]

\* GenerateTokens marking the account's earlier records used
GenerateTokens_Rotating(self) ==
  /\ pc[self] = "tokens"
  /\ LET r == req[self]
         id == nextId.token
         random == generateRandomToken("refresh", id)
         access == generateAccessToken(
                     [userId |-> r.userId, email |-> r.email, role |-> r.role], now)
         refresh == generateRefreshToken([userId |-> r.userId, tokenId |-> id], now)
         done == [r EXCEPT !.access = access, !.refresh = refresh, !.created = id]
         earlier == [i \in DOMAIN authTokens |->
                      IF authTokens[i].userId = r.userId
                      THEN [authTokens[i] EXCEPT !.used = TRUE, !.usedAt = now]
                      ELSE authTokens[i]]
     IN /\ authTokens' = earlier @@ (id :> NewAuthToken(r.userId, random, now))
        /\ nextId' = [nextId EXCEPT !.token = id + 1]
        /\ issued' = issued \cup {refresh}
        /\ redeemed' = IF r.op = "refresh" THEN redeemed \cup {r.presented} ELSE redeemed
        /\ IF r.op = "login" THEN Goto(self, "l_audit", done) ELSE Finish(self, done)
  /\ UNCHANGED <<users, passwordResets, auditLogs, now, fails, cap>>

GenerateTokens(self) ==
  /\ pc[self] = "tokens"
  /\ LET r == req[self]
         id == nextId.token
         random == generateRandomToken("refresh", id)
         access == generateAccessToken(
                     [userId |-> r.userId, email |-> r.email, role |-> r.role], now)
         refresh == generateRefreshToken([userId |-> r.userId, tokenId |-> id], now)
         done == [r EXCEPT !.access = access, !.refresh = refresh, !.created = id]
     IN /\ authTokens' = authTokens @@ (id :> NewAuthToken(r.userId, random, now))
        /\ nextId' = [nextId EXCEPT !.token = id + 1]
        /\ issued' = issued \cup {refresh}
        /\ redeemed' = IF r.op = "refresh" THEN redeemed \cup {r.presented} ELSE redeemed
        /\ IF r.op = "login" THEN Goto(self, "l_audit", done) ELSE Finish(self, done)
  /\ UNCHANGED <<users, passwordResets, auditLogs, now, fails, cap>>

(***************************************************************************)
(* signup                                                                  *)
(***************************************************************************)
SignupResult(role, e) ==
  [op |-> "signup", role |-> role, userId |-> 0, error |-> e,
   access |-> NoToken, refresh |-> NoToken, created |-> 0]

\* lines 45-82: the checks up to the create
SignupCheck(self, email, password, confirmPassword, role) ==
  LET normalizedEmail == normalizeEmail(email)
      existingUser == FindUserByEmail(normalizedEmail)
      passwordValidation == validatePasswordStrength(password)
  IN
  /\ pc[self] = "idle"
  /\ IF ~canSelfRegister(role)
       THEN Finish(self, SignupResult(role, Err("users cannot self-register")))
     ELSE IF ~isValidEmail(normalizedEmail)
       THEN Finish(self, SignupResult(role, Err("Invalid email format")))
     ELSE IF existingUser.id # 0 /\ existingUser.deletedAt = Null
       THEN Finish(self, SignupResult(role, Err("User with this email already exists")))
     ELSE IF password # confirmPassword
       THEN Finish(self, SignupResult(role, Err("Passwords do not match")))
     ELSE IF ~passwordValidation.isValid
       THEN Finish(self, SignupResult(role, ErrJoined(passwordValidation.errors)))
     ELSE /\ RoomForUser
          /\ RoomForToken
          /\ Goto(self, "s_create",
                  SignupResult(role, NoError) @@
                  [email |-> normalizedEmail,
                   passwordHash |-> hashPassword(password),
                   status |-> getDefaultAccountStatus(role)])
  /\ UNCHANGED <<store, now, ghost>>

NewUser(id, r) ==
  [id |-> id, email |-> r.email, passwordHash |-> r.passwordHash, role |-> r.role,
   status |-> r.status, lastLogin |-> Null, loginAttempts |-> 0,
   lockedUntil |-> Null, deletedAt |-> Null]

\* SignupCreate on a column that is not unique
SignupCreate_NotUnique(self) ==
  LET r == req[self]
      id == Len(users) + 1
  IN
  /\ pc[self] = "s_create"
  /\ users' = Append(users, NewUser(id, r))
  /\ fails' = Append(fails, [streak |-> 0, at |-> Null, lockedAt |-> Null, written |-> 0])
  /\ Goto(self, "tokens", [r EXCEPT !.userId = id])
  /\ UNCHANGED <<authTokens, passwordResets, auditLogs, nextId, now, issued, redeemed, cap>>

\* lines 84-94: prisma.user.create; email is @unique
SignupCreate(self) ==
  LET r == req[self]
      id == Len(users) + 1
  IN
  /\ pc[self] = "s_create"
  /\ IF FindUserByEmail(r.email).id # 0
       THEN /\ Finish(self, SignupResult(r.role, Err(MsgUniqueConstraint)))
            /\ UNCHANGED <<users, fails>>
       ELSE /\ users' = Append(users, NewUser(id, r))
            /\ fails' = Append(fails, [streak |-> 0, at |-> Null, lockedAt |-> Null, written |-> 0])
            /\ Goto(self, "tokens", [r EXCEPT !.userId = id])
  /\ UNCHANGED <<authTokens, passwordResets, auditLogs, nextId, now, issued, redeemed, cap>>

(***************************************************************************)
(* login                                                                   *)
(***************************************************************************)
\* pwOk: whether the supplied password is the account's;  streak, lastFail:
\* the account's entry of fails when the call was made
LoginResult(user, pwOk, e) ==
  [op |-> "login", userId |-> user.id, user |-> user, pwOk |-> pwOk,
   streak |-> IF user.id = 0 THEN 0 ELSE fails[user.id].streak,
   lastFail |-> IF user.id = 0 THEN Null ELSE fails[user.id].at,
   lockedAt |-> IF user.id = 0 THEN Null ELSE fails[user.id].lockedAt,
   error |-> e, access |-> NoToken, refresh |-> NoToken, created |-> 0]

StatusError(status) ==
  CASE status = "PENDING_APPROVAL" ->
         Err("Your account is pending approval. Please wait for admin confirmation")
    [] status = "SUSPENDED" -> Err("Your account has been suspended")
    [] status = "DELETED" -> Err("Your account has been deleted")
    [] OTHER -> Err("Your account status does not allow login")

\* IsLocked with no look at the clock
IsLocked_Forever(user, t) == user.lockedUntil # Null

\* IsLocked with the comparison the other way round
IsLocked_Flipped(user, t) == user.lockedUntil # Null /\ user.lockedUntil < t

\* line 137
IsLocked(user, t) == user.lockedUntil # Null /\ user.lockedUntil > t

\* LoginCheck with the status looked at before the password
LoginCheck_StatusFirst(self, email, password) ==
  LET user == FindUserByEmail(normalizeEmail(email))
      pwOk == user.id # 0 /\ verifyPassword(password, user.passwordHash)
  IN
  /\ pc[self] = "idle"
  /\ IF user.id = 0 \/ user.deletedAt # Null
       THEN Finish(self, LoginResult(user, pwOk, Err(MsgInvalidCredentials)))
     ELSE IF IsLocked(user, now)
       THEN Finish(self, LoginResult(user, pwOk,
                 ErrLocked(CeilDiv(user.lockedUntil - now, MsPerMinute))))
     ELSE IF user.status # "ACTIVE"
       THEN Finish(self, LoginResult(user, pwOk, StatusError(user.status)))
     ELSE IF ~verifyPassword(password, user.passwordHash)
       THEN /\ user.loginAttempts < cap.counter
            /\ Goto(self, "l_fail", LoginResult(user, pwOk, NoError))
     ELSE /\ RoomForToken
          /\ Goto(self, "l_reset",
                  LoginResult(user, pwOk, NoError) @@
                  [email |-> user.email, role |-> user.role])
  /\ UNCHANGED <<store, now, ghost>>

\* LoginCheck without the test of deletedAt
LoginCheck_DeletedSeen(self, email, password) ==
  LET user == FindUserByEmail(normalizeEmail(email))
      pwOk == user.id # 0 /\ verifyPassword(password, user.passwordHash)
  IN
  /\ pc[self] = "idle"
  /\ IF user.id = 0
       THEN Finish(self, LoginResult(user, pwOk, Err(MsgInvalidCredentials)))
     ELSE IF IsLocked(user, now)
       THEN Finish(self, LoginResult(user, pwOk,
                 ErrLocked(CeilDiv(user.lockedUntil - now, MsPerMinute))))
     ELSE IF ~verifyPassword(password, user.passwordHash)
       THEN /\ user.loginAttempts < cap.counter
            /\ Goto(self, "l_fail", LoginResult(user, pwOk, NoError))
     ELSE IF user.status # "ACTIVE"
       THEN Finish(self, LoginResult(user, pwOk, StatusError(user.status)))
     ELSE /\ RoomForToken
          /\ Goto(self, "l_reset",
                  LoginResult(user, pwOk, NoError) @@
                  [email |-> user.email, role |-> user.role])
  /\ UNCHANGED <<store, now, ghost>>

\* LoginCheck without the check of the status
LoginCheck_AnyStatus(self, email, password) ==
  LET user == FindUserByEmail(normalizeEmail(email))
      pwOk == user.id # 0 /\ verifyPassword(password, user.passwordHash)
  IN
  /\ pc[self] = "idle"
  /\ IF user.id = 0 \/ user.deletedAt # Null
       THEN Finish(self, LoginResult(user, pwOk, Err(MsgInvalidCredentials)))
     ELSE IF IsLocked(user, now)
       THEN Finish(self, LoginResult(user, pwOk,
                 ErrLocked(CeilDiv(user.lockedUntil - now, MsPerMinute))))
     ELSE IF ~verifyPassword(password, user.passwordHash)
       THEN /\ user.loginAttempts < cap.counter
            /\ Goto(self, "l_fail", LoginResult(user, pwOk, NoError))
     ELSE /\ RoomForToken
          /\ Goto(self, "l_reset",
                  LoginResult(user, pwOk, NoError) @@
                  [email |-> user.email, role |-> user.role])
  /\ UNCHANGED <<store, now, ghost>>

\* LoginCheck counting the attempt that is turned away by the lock
LoginCheck_CountsLocked(self, email, password) ==
  LET user == FindUserByEmail(normalizeEmail(email))
      pwOk == user.id # 0 /\ verifyPassword(password, user.passwordHash)
  IN
  /\ pc[self] = "idle"
  /\ IF user.id = 0 \/ user.deletedAt # Null
       THEN /\ Finish(self, LoginResult(user, pwOk, Err(MsgInvalidCredentials)))
            /\ UNCHANGED users
     ELSE IF IsLocked(user, now)
       THEN /\ Finish(self, LoginResult(user, pwOk,
                   ErrLocked(CeilDiv(user.lockedUntil - now, MsPerMinute))))
            /\ users' = [users EXCEPT ![user.id].loginAttempts =
                           IF @ < cap.counter THEN @ + 1 ELSE @]
     ELSE IF ~verifyPassword(password, user.passwordHash)
       THEN /\ user.loginAttempts < cap.counter
            /\ Goto(self, "l_fail", LoginResult(user, pwOk, NoError))
            /\ UNCHANGED users
     ELSE IF user.status # "ACTIVE"
       THEN /\ Finish(self, LoginResult(user, pwOk, StatusError(user.status)))
            /\ UNCHANGED users
     ELSE /\ RoomForToken
          /\ Goto(self, "l_reset",
                  LoginResult(user, pwOk, NoError) @@
                  [email |-> user.email, role |-> user.role])
          /\ UNCHANGED users
  /\ UNCHANGED <<authTokens, passwordResets, auditLogs, nextId, now, ghost>>

\* lines 124-175: the lookup, the lock check, the password and the status
LoginCheck(self, email, password) ==
  LET user == FindUserByEmail(normalizeEmail(email))
      pwOk == user.id # 0 /\ verifyPassword(password, user.passwordHash)
  IN
  /\ pc[self] = "idle"
  /\ IF user.id = 0 \/ user.deletedAt # Null
       THEN Finish(self, LoginResult(user, pwOk, Err(MsgInvalidCredentials)))
     ELSE IF IsLocked(user, now)
       THEN Finish(self, LoginResult(user, pwOk,
                 ErrLocked(CeilDiv(user.lockedUntil - now, MsPerMinute))))
     ELSE IF ~verifyPassword(password, user.passwordHash)
       THEN /\ user.loginAttempts < cap.counter
            /\ Goto(self, "l_fail", LoginResult(user, pwOk, NoError))
     ELSE IF user.status # "ACTIVE"
       THEN Finish(self, LoginResult(user, pwOk, StatusError(user.status)))
     ELSE /\ RoomForToken
          /\ Goto(self, "l_reset",
                  LoginResult(user, pwOk, NoError) @@
                  [email |-> user.email, role |-> user.role])
  /\ UNCHANGED <<store, now, ghost>>

\* FailedLoginUpdate locking one wrong password early
FailedLoginUpdate_LocksEarly(user, t) ==
  LET newAttempts == user.loginAttempts + 1
      shouldLock == newAttempts >= maxLoginAttempts - 1
  IN [loginAttempts |-> newAttempts,
      lockedUntil |-> IF shouldLock THEN t + lockoutDuration ELSE Null]

\* lines 149-157
FailedLoginUpdate(user, t) ==
  LET newAttempts == user.loginAttempts + 1
      shouldLock == newAttempts >= maxLoginAttempts
  IN [loginAttempts |-> newAttempts,
      lockedUntil |-> IF shouldLock THEN t + lockoutDuration ELSE Null]

\* lines 147-161: the failure is counted from the row read in LoginCheck
LoginFail(self) ==
  LET r == req[self]
      u == r.userId
      data == FailedLoginUpdate(r.user, now)
  IN
  /\ pc[self] = "l_fail"
  /\ users' = [users EXCEPT ![u].loginAttempts = data.loginAttempts,
                            ![u].lockedUntil = data.lockedUntil]
  /\ fails' = [fails EXCEPT ![u] =
                [streak |-> @.streak + 1, at |-> now,
                 lockedAt |-> IF data.lockedUntil # Null THEN now ELSE @.lockedAt,
                 written |-> data.loginAttempts]]
  /\ Finish(self, [r EXCEPT !.error = Err(MsgInvalidCredentials)])
  /\ UNCHANGED <<authTokens, passwordResets, auditLogs, nextId, now, issued, redeemed, cap>>

\* SuccessfulLoginUpdate leaving the lock as it was
SuccessfulLoginUpdate_KeepLock(user, t) ==
  [loginAttempts |-> 0, lockedUntil |-> user.lockedUntil, lastLogin |-> t]

\* lines 180-184
SuccessfulLoginUpdate(user, t) ==
  [loginAttempts |-> 0, lockedUntil |-> Null, lastLogin |-> t]

\* lines 177-185
LoginReset(self) ==
  LET r == req[self]
      u == r.userId
      data == SuccessfulLoginUpdate(r.user, now)
  IN
  /\ pc[self] = "l_reset"
  /\ users' = [users EXCEPT ![u].loginAttempts = data.loginAttempts,
                            ![u].lockedUntil = data.lockedUntil,
                            ![u].lastLogin = data.lastLogin]
  /\ fails' = [fails EXCEPT ![u] =
                [streak |-> 0, at |-> Null, lockedAt |-> Null,
                 written |-> data.loginAttempts]]
  /\ Goto(self, "tokens", r)
  /\ UNCHANGED <<authTokens, passwordResets, auditLogs, nextId, now, issued, redeemed, cap>>

\* lines 196-211 and logAuditEvent, 501-518: a failure of the create is swallowed
\* LoginAudit with a logAuditEvent that throws what the create threw
LoginAudit_Throws(self) ==
  LET r == req[self]
      event == [userId |-> r.userId, action |-> "LOGIN", resource |-> "AUTH",
                status |-> "SUCCESS"]
  IN
  /\ pc[self] = "l_audit"
  /\ \E written \in BOOLEAN :
       /\ written => Len(auditLogs) < cap.audit
       /\ auditLogs' = IF written THEN Append(auditLogs, event) ELSE auditLogs
       /\ IF written THEN Finish(self, r)
          ELSE Finish(self, [r EXCEPT !.error = Err("Failed to log audit event"),
                                     !.access = NoToken, !.refresh = NoToken])
  /\ UNCHANGED <<users, authTokens, passwordResets, nextId, now, ghost>>

LoginAudit(self) ==
  LET r == req[self]
      event == [userId |-> r.userId, action |-> "LOGIN", resource |-> "AUTH",
                status |-> "SUCCESS"]
  IN
  /\ pc[self] = "l_audit"
  /\ \E written \in BOOLEAN :
       /\ written => Len(auditLogs) < cap.audit
       /\ auditLogs' = IF written THEN Append(auditLogs, event) ELSE auditLogs
  /\ Finish(self, r)
  /\ UNCHANGED <<users, authTokens, passwordResets, nextId, now, ghost>>

(***************************************************************************)
(* refreshAccessToken                                                      *)
(***************************************************************************)
\* presented: the token of the request;  wasRedeemed: whether a refresh had
\* succeeded with it before;  found: the record the lookup returned;
\* peers: the refreshes of the same token in flight when this one started
RefreshResult(presented, found, e) ==
  [op |-> "refresh", presented |-> presented,
   wasRedeemed |-> presented \in redeemed,
   found |-> found,
   foundExpiresAt |-> IF found = 0 THEN Null ELSE authTokens[found].expiresAt,
   marked |-> 0,
   peers |-> {q \in Slots : /\ pc[q] \in {"r_mark", "tokens"}
                            /\ req[q].op = "refresh"
                            /\ req[q].presented = presented},
   userId |-> 0, error |-> e, access |-> NoToken, refresh |-> NoToken,
   created |-> 0]

\* prisma.authToken.findFirst({ where: { type: REFRESH, used: false } }):
\* the rows the query matches; no orderBy says which of them is returned
RefreshCandidates ==
  {id \in DOMAIN authTokens : authTokens[id].type = "REFRESH" /\ ~authTokens[id].used}

\* lines 233-262: the lookup and the checks on what it returned
RefreshFind(self, presented) ==
  /\ pc[self] = "idle"
  /\ IF RefreshCandidates = {}
       THEN Finish(self, RefreshResult(presented, 0, Err(MsgTokenInvalid)))
       ELSE \E id \in RefreshCandidates :
              LET tokenRecord == authTokens[id]
                  user == users[tokenRecord.userId]
              IN IF tokenRecord.used
                   THEN Finish(self, RefreshResult(presented, id, Err(MsgTokenUsed)))
                 ELSE IF user.status # "ACTIVE"
                   THEN Finish(self, RefreshResult(presented, id, Err(MsgNotActive)))
                 ELSE /\ RoomForToken
                      /\ Goto(self, "r_mark",
                              [RefreshResult(presented, id, NoError)
                                 EXCEPT !.userId = user.id] @@
                              [email |-> user.email, role |-> user.role])
  /\ UNCHANGED <<store, now, ghost>>

\* MarkUsed as a switch
MarkUsed_Toggle(record, t) == [record EXCEPT !.used = ~record.used, !.usedAt = t]

MarkUsed(record, t) == [record EXCEPT !.used = TRUE, !.usedAt = t]

\* lines 264-271: prisma.authToken.update throws when the row is gone
RefreshMark(self) ==
  LET r == req[self] IN
  /\ pc[self] = "r_mark"
  /\ IF r.found \notin DOMAIN authTokens
       THEN /\ Finish(self, [r EXCEPT !.error = Err(MsgRecordNotFound)])
            /\ UNCHANGED authTokens
       ELSE /\ authTokens' = [authTokens EXCEPT ![r.found] = MarkUsed(@, now)]
            /\ Goto(self, "tokens", [r EXCEPT !.marked = r.found])
  /\ UNCHANGED <<users, passwordResets, auditLogs, nextId, now, ghost>>

(***************************************************************************)
(* logout                                                                  *)
(***************************************************************************)
\* lines 401-418: one updateMany
\* Logout with no userId in the where clause
Logout_Everyone(self, userId) ==
  /\ pc[self] = "idle"
  /\ authTokens' =
       [id \in DOMAIN authTokens |->
          IF authTokens[id].type = "REFRESH" /\ ~authTokens[id].used
          THEN MarkUsed(authTokens[id], now)
          ELSE authTokens[id]]
  /\ Finish(self, [op |-> "logout", userId |-> userId, error |-> NoError])
  /\ UNCHANGED <<users, passwordResets, auditLogs, nextId, now, ghost>>

Logout(self, userId) ==
  /\ pc[self] = "idle"
  /\ authTokens' =
       [id \in DOMAIN authTokens |->
          IF /\ authTokens[id].userId = userId
             /\ authTokens[id].type = "REFRESH"
             /\ ~authTokens[id].used
          THEN MarkUsed(authTokens[id], now)
          ELSE authTokens[id]]
  /\ Finish(self, [op |-> "logout", userId |-> userId, error |-> NoError])
  /\ UNCHANGED <<users, passwordResets, auditLogs, nextId, now, ghost>>

(***************************************************************************)
(* generatePasswordResetToken                                              *)
(***************************************************************************)
ForgotResult(userId, token) ==
  [op |-> "forgot", userId |-> userId, token |-> token, error |-> NoError,
   created |-> 0]

\* ForgotFind without the return for an email that no account has
ForgotFind_NoEarlyReturn(self, email) ==
  LET user == FindUserByEmail(normalizeEmail(email)) IN
  /\ pc[self] = "idle"
  /\ RoomForReset
  /\ Goto(self, "g_delete", ForgotResult(user.id, BogusResetToken))
  /\ UNCHANGED <<store, now, ghost>>

\* lines 301-312
ForgotFind(self, email) ==
  LET user == FindUserByEmail(normalizeEmail(email)) IN
  /\ pc[self] = "idle"
  /\ IF user.id = 0
       THEN Finish(self, ForgotResult(0, generateRandomToken("reset", 0)))
       ELSE /\ RoomForReset
            /\ Goto(self, "g_delete", ForgotResult(user.id, BogusResetToken))
  /\ UNCHANGED <<store, now, ghost>>

\* lines 314-317: prisma.passwordReset.deleteMany({ where: { userId } })
ForgotDelete(self) ==
  LET r == req[self]
      kept == {id \in DOMAIN passwordResets : passwordResets[id].userId # r.userId}
  IN
  /\ pc[self] = "g_delete"
  /\ passwordResets' = [id \in kept |-> passwordResets[id]]
  /\ Goto(self, "g_create", r)
  /\ UNCHANGED <<users, authTokens, auditLogs, nextId, now, ghost>>

\* lines 319-332
ForgotCreate(self) ==
  LET r == req[self]
      id == nextId.reset
  IN
  /\ pc[self] = "g_create"
  /\ LET resetToken == generateRandomToken("reset", id) IN
       /\ passwordResets' = passwordResets @@
            (id :> [userId |-> r.userId, token |-> hashToken(resetToken),
                    expiresAt |-> now + resetTokenTtl])
       /\ Finish(self, [r EXCEPT !.token = resetToken, !.created = id])
  /\ nextId' = [nextId EXCEPT !.reset = id + 1]
  /\ UNCHANGED <<users, authTokens, auditLogs, now, ghost>>

(***************************************************************************)
(* resetPassword                                                           *)
(***************************************************************************)
ResetResult(token, found, e) ==
  [op |-> "reset", token |-> token, found |-> found,
   userId |-> IF found = 0 THEN 0 ELSE passwordResets[found].userId,
   error |-> e]

\* prisma.passwordReset.findFirst({ where: { expiresAt: { gt: new Date() } } })
ResetCandidates(t) == {id \in DOMAIN passwordResets : passwordResets[id].expiresAt > t}

\* ResetFind looking the reset record up before it validates the passwords
ResetFind_LookupFirst(self, token, newPassword, confirmPassword) ==
  LET validation == validatePasswordStrength(newPassword) IN
  /\ pc[self] = "idle"
  /\ IF ResetCandidates(now) = {}
       THEN Finish(self, ResetResult(token, 0, Err(MsgResetInvalid)))
     ELSE \E id \in ResetCandidates(now) :
            IF newPassword # confirmPassword
              THEN Finish(self, ResetResult(token, id, Err("Passwords do not match")))
            ELSE IF ~validation.isValid
              THEN Finish(self, ResetResult(token, id, ErrJoined(validation.errors)))
            ELSE Goto(self, "p_tx",
                      ResetResult(token, id, NoError) @@
                      [newPasswordHash |-> hashPassword(newPassword)])
  /\ UNCHANGED <<store, now, ghost>>

\* lines 349-373
ResetFind(self, token, newPassword, confirmPassword) ==
  LET validation == validatePasswordStrength(newPassword) IN
  /\ pc[self] = "idle"
  /\ IF newPassword # confirmPassword
       THEN Finish(self, ResetResult(token, 0, Err("Passwords do not match")))
     ELSE IF ~validation.isValid
       THEN Finish(self, ResetResult(token, 0, ErrJoined(validation.errors)))
     ELSE IF ResetCandidates(now) = {}
       THEN Finish(self, ResetResult(token, 0, Err(MsgResetInvalid)))
     ELSE \E id \in ResetCandidates(now) :
            Goto(self, "p_tx",
                 ResetResult(token, id, NoError) @@
                 [newPasswordHash |-> hashPassword(newPassword)])
  /\ UNCHANGED <<store, now, ghost>>

\* PasswordUpdate sending the account back to the verification of its address
PasswordUpdate_Reverify(user, newPasswordHash) ==
  [user EXCEPT !.passwordHash = newPasswordHash,
               !.status = "PENDING_EMAIL_VERIFICATION"]

\* lines 377-380
PasswordUpdate(user, newPasswordHash) == [user EXCEPT !.passwordHash = newPasswordHash]

\* ResetCommit without the third write of the transaction
ResetCommit_KeepTokens(self) ==
  LET r == req[self] IN
  /\ pc[self] = "p_tx"
  /\ IF r.found \notin DOMAIN passwordResets
       THEN /\ Finish(self, [r EXCEPT !.error = Err(MsgRecordNotFound)])
            /\ UNCHANGED <<users, passwordResets, authTokens>>
       ELSE /\ users' = [users EXCEPT ![r.userId] = PasswordUpdate(@, r.newPasswordHash)]
            /\ passwordResets' =
                 [id \in DOMAIN passwordResets \ {r.found} |-> passwordResets[id]]
            /\ UNCHANGED authTokens
            /\ Finish(self, r)
  /\ UNCHANGED <<auditLogs, nextId, now, ghost>>

\* ResetCommit as three writes outside a transaction: the delete of a reset
\* record that is gone fails after the password update and leaves it applied,
\* together with the removal of the refresh records
ResetCommit_NoRollback(self) ==
  LET r == req[self]
      keptTokens == {id \in DOMAIN authTokens : authTokens[id].userId # r.userId}
  IN
  /\ pc[self] = "p_tx"
  /\ users' = [users EXCEPT ![r.userId] = PasswordUpdate(@, r.newPasswordHash)]
  /\ passwordResets' =
       [id \in DOMAIN passwordResets \ {r.found} |-> passwordResets[id]]
  /\ authTokens' = [id \in keptTokens |-> authTokens[id]]
  /\ IF r.found \notin DOMAIN passwordResets
       THEN Finish(self, [r EXCEPT !.error = Err(MsgRecordNotFound)])
       ELSE Finish(self, r)
  /\ UNCHANGED <<auditLogs, nextId, now, ghost>>

\* lines 375-387: one transaction; a delete of a row that is gone rolls it back
ResetCommit(self) ==
  LET r == req[self]
      keptTokens == {id \in DOMAIN authTokens : authTokens[id].userId # r.userId}
  IN
  /\ pc[self] = "p_tx"
  /\ IF r.found \notin DOMAIN passwordResets
       THEN /\ Finish(self, [r EXCEPT !.error = Err(MsgRecordNotFound)])
            /\ UNCHANGED <<users, passwordResets, authTokens>>
       ELSE /\ users' = [users EXCEPT ![r.userId] = PasswordUpdate(@, r.newPasswordHash)]
            /\ passwordResets' =
                 [id \in DOMAIN passwordResets \ {r.found} |-> passwordResets[id]]
            /\ authTokens' = [id \in keptTokens |-> authTokens[id]]
            /\ Finish(self, r)
  /\ UNCHANGED <<auditLogs, nextId, now, ghost>>

(***************************************************************************)
(* The specifications.                                                     *)
(***************************************************************************)
Signup(self) ==
  \E email \in cap.emails, password \in SignupPasswords,
     confirmPassword \in SignupPasswords, role \in cap.roles :
    SignupCheck(self, email, password, confirmPassword, role)

Login(self) ==
  \E email \in cap.emails, password \in LoginPasswords :
    LoginCheck(self, email, password)

Refresh(self) ==
  \E presented \in issued \cup {BogusToken} : RefreshFind(self, presented)

LogoutAny(self) == \E userId \in DOMAIN users : Logout(self, userId)

Forgot(self) == \E email \in Emails : ForgotFind(self, email)

\* the reset tokens a client can present: those handed out, and one that was not
ResetTokens ==
  {generateRandomToken("reset", id) : id \in 1 .. (nextId.reset - 1)} \cup {BogusResetToken}

Reset(self) ==
  \E token \in ResetTokens, newPassword \in ResetPasswords,
     confirmPassword \in ResetPasswords :
    ResetFind(self, token, newPassword, confirmPassword)

SignupOps(self) == Signup(self) \/ SignupCreate(self)

LoginOps(self) == Login(self) \/ LoginFail(self) \/ LoginReset(self) \/ LoginAudit(self)

RefreshOps(self) == Refresh(self) \/ RefreshMark(self)

ResetOps(self) ==
  \/ Forgot(self)
  \/ ForgotDelete(self)
  \/ ForgotCreate(self)
  \/ Reset(self)
  \/ ResetCommit(self)

\* every handler
Next ==
  \/ Tick
  \/ \E self \in OneSlot :
       \/ SignupOps(self)
       \/ LoginOps(self)
       \/ RefreshOps(self)
       \/ LogoutAny(self)
       \/ ResetOps(self)
       \/ GenerateTokens(self)
       \/ Return(self)

\* the requests that read or write the lock state of an account
NextLock ==
  \/ Tick
  \/ \E self \in OneSlot :
       \/ SignupOps(self)
       \/ LoginOps(self)
       \/ ResetOps(self)
       \/ GenerateTokens(self)
       \/ Return(self)

\* the requests that read or write refresh records, but for login
NextRefresh ==
  \/ Tick
  \/ \E self \in OneSlot :
       \/ SignupOps(self)
       \/ RefreshOps(self)
       \/ LogoutAny(self)
       \/ GenerateTokens(self)
       \/ Return(self)

\* the same requests, two at a time
NextRace ==
  \/ Tick
  \/ \E self \in TwoSlots :
       \/ SignupOps(self)
       \/ RefreshOps(self)
       \/ LogoutAny(self)
       \/ GenerateTokens(self)
       \/ Return(self)

\* signups and logins, two at a time
NextLockRace ==
  \/ Tick
  \/ \E self \in OneSlot : SignupOps(self)
  \/ \E self \in TwoSlots :
       \/ LoginOps(self)
       \/ GenerateTokens(self)
       \/ Return(self)

\* An account gets a status other than the one signup gave it by a write to
\* the database from outside the service ("Admin must update status to
\* ACTIVE"); the service has no handler for it.
AdminSetStatus ==
  /\ \E u \in DOMAIN users : \E status \in AccountStatuses :
       /\ users[u].status # status
       /\ users' = [users EXCEPT ![u].status = status]
  /\ UNCHANGED <<authTokens, passwordResets, auditLogs, nextId, now, pc, req, ghost>>

\* one address, the clock in whole lock windows
InitStatus ==
  InitWith(OneSlot, [users |-> MaxUsers, tokens |-> MaxTokens, resets |-> MaxResets,
                 audit |-> MaxAudit, ticks |-> MaxTicks, counter |-> MaxCounter,
                 steps |-> {lockoutDuration},
                 emails |-> {EmailA, EmailBad}, roles |-> SignupRoles])

\* signups and logins, one at a time, of accounts of every status
NextStatus ==
  \/ Tick
  \/ AdminSetStatus
  \/ \E self \in OneSlot :
       \/ SignupOps(self)
       \/ LoginOps(self)
       \/ GenerateTokens(self)
       \/ Return(self)

\* two accounts, the clock in lifetimes of a reset record
InitReset ==
  InitWith(OneSlot, [users |-> ResetMaxUsers, tokens |-> ResetMaxTokens,
                 resets |-> ResetMaxResets, audit |-> ResetMaxAudit,
                 ticks |-> MaxTicks, counter |-> MaxCounter,
                 steps |-> {resetTokenTtl},
                 emails |-> {EmailA, EmailB}, roles |-> {"STUDENT"}])

\* the requests that read or write reset records and refresh records, one at a time
NextReset ==
  \/ Tick
  \/ \E self \in OneSlot :
       \/ SignupOps(self)
       \/ RefreshOps(self)
       \/ ResetOps(self)
       \/ GenerateTokens(self)
       \/ Return(self)

\* one account, two reset requests at a time
InitResetRace ==
  InitWith(TwoSlots, [users |-> MaxUsers, tokens |-> MaxTokens,
                 resets |-> ResetMaxResets, audit |-> ResetMaxAudit,
                 ticks |-> MaxTicks, counter |-> MaxCounter,
                 steps |-> {resetTokenTtl},
                 emails |-> {EmailA}, roles |-> {"STUDENT"}])

NextResetRace ==
  \/ Tick
  \/ \E self \in OneSlot :
       \/ SignupOps(self)
       \/ GenerateTokens(self)
  \/ \E self \in TwoSlots :
       \/ ResetOps(self)
       \/ Return(self)

\* one account, a login and a password reset at a time
InitLoginReset ==
  InitWith(TwoSlots, [users |-> MaxUsers, tokens |-> MaxTokens,
                 resets |-> MaxResets, audit |-> RaceMaxAudit,
                 ticks |-> MaxTicks, counter |-> FrameMaxCounter,
                 steps |-> {resetTokenTtl},
                 emails |-> {EmailA}, roles |-> {"STUDENT"}])

NextLoginReset ==
  \/ Tick
  \/ \E self \in OneSlot : SignupOps(self)
  \/ \E self \in TwoSlots :
       \/ LoginOps(self)
       \/ ResetOps(self)
       \/ GenerateTokens(self)
       \/ Return(self)

\* every role, addresses that differ in case and blanks only
InitSignup ==
  InitWith(TwoSlots, [users |-> SignupMaxUsers, tokens |-> SignupMaxTokens,
                 resets |-> MaxResets, audit |-> MaxAudit,
                 ticks |-> MaxTicks, counter |-> MaxCounter,
                 steps |-> {lockoutDuration},
                 emails |-> {EmailA, EmailAShout, EmailB, EmailBad}, roles |-> Roles])

\* signups, two at a time
NextSignup ==
  \/ Tick
  \/ \E self \in TwoSlots :
       \/ SignupOps(self)
       \/ GenerateTokens(self)
       \/ Return(self)

\* An account is soft-deleted ("Users never permanently deleted") by a write
\* to the database from outside the service: deletedAt gets the time, the
\* status becomes DELETED; the service has no handler for it.
AdminSoftDelete ==
  /\ \A p \in Slots : pc[p] = "idle"
  /\ \E u \in DOMAIN users :
       /\ users[u].deletedAt = Null
       /\ users' = [users EXCEPT ![u].deletedAt = now, ![u].status = "DELETED"]
  /\ UNCHANGED <<authTokens, passwordResets, auditLogs, nextId, now, pc, req, ghost>>

\* one address in two spellings, room for a second account
InitSoftDelete ==
  InitWith(OneSlot, [users |-> SoftDeleteMaxUsers, tokens |-> SoftDeleteMaxTokens,
                 resets |-> MaxResets, audit |-> MaxAudit,
                 ticks |-> MaxTicks, counter |-> MaxCounter,
                 steps |-> {lockoutDuration},
                 emails |-> {EmailA, EmailAShout, EmailBad}, roles |-> {"STUDENT"}])

\* signups and logins, one at a time, of accounts that may be soft-deleted
NextSoftDelete ==
  \/ Tick
  \/ AdminSoftDelete
  \/ \E self \in OneSlot :
       \/ SignupOps(self)
       \/ LoginOps(self)
       \/ GenerateTokens(self)
       \/ Return(self)

\* The passwords given to validatePasswordStrength: every string of up to
\* MaxPwLen characters over one character of each class and a blank, and each
\* of them again behind MinPasswordLength blanks.
PasswordAlphabet == {"A", "a", "1", "!", " "}
ShortPasswords == UNION {[1 .. k -> PasswordAlphabet] : k \in 0 .. MaxPwLen}
Blanks == [i \in 1 .. MinPasswordLength |-> " "]
PasswordInputs == ShortPasswords \cup {Blanks \o password : password \in ShortPasswords}

\* a call of validatePasswordStrength
ValidatePassword(self) ==
  /\ pc[self] = "idle"
  /\ \E password \in PasswordInputs :
       Finish(self, [op |-> "validate", password |-> password,
                     result |-> validatePasswordStrength(password),
                     error |-> NoError])
  /\ UNCHANGED <<store, now, ghost>>

InitPassword ==
  InitWith(OneSlot, [users |-> MaxUsers, tokens |-> MaxTokens, resets |-> MaxResets,
                 audit |-> MaxAudit, ticks |-> MaxTicks, counter |-> MaxCounter,
                 steps |-> {lockoutDuration}, emails |-> {EmailA}, roles |-> {"STUDENT"}])

NextPassword ==
  \E self \in OneSlot :
    \/ ValidatePassword(self)
    \/ Return(self)

\* The payloads given to generateAccessToken.
Payloads ==
  [userId : 1 .. JwtMaxUsers, email : {EmailA, EmailB}, role : Roles]

\* a call of generateAccessToken; the token goes out with its payload
SignAccess(self) ==
  /\ pc[self] = "idle"
  /\ Cardinality(issued) < JwtMaxTokens
  /\ \E payload \in Payloads :
       LET token == generateAccessToken(payload, now) IN
       /\ issued' = issued \cup {[payload |-> payload, token |-> token]}
       /\ Finish(self, [op |-> "sign", payload |-> payload, token |-> token,
                        error |-> NoError])
  /\ UNCHANGED <<store, now, redeemed, fails, cap>>

\* what a client can make of a token without the secret: the same token with
\* another account, another role or a later exp in its claims
Tampered(token) ==
  {[token EXCEPT !.userId = u] : u \in (1 .. JwtMaxUsers + 1) \ {token.userId}}
  \cup {[token EXCEPT !.role = r] : r \in Roles \ {token.role}}
  \cup {[token EXCEPT !.exp = token.exp + getExpirationInSeconds(jwtAccessExpiresIn)]}

\* the tokens handed to verifyAccessToken, each with where it came from
VerifyInputs ==
  UNION {{[kind |-> "issued", payload |-> e.payload, token |-> e.token],
          [kind |-> "refresh-secret", payload |-> e.payload,
           token |-> Jwt(Claims(e.token), "jwtRefreshSecret")]}
         \cup {[kind |-> "tampered", payload |-> e.payload, token |-> t] :
                  t \in Tampered(e.token)} : e \in issued}

\* a call of verifyAccessToken
VerifyAccess(self) ==
  /\ pc[self] = "idle"
  /\ \E in \in VerifyInputs :
       Finish(self, [op |-> "verify", kind |-> in.kind, payload |-> in.payload,
                     token |-> in.token, at |-> now,
                     result |-> verifyAccessToken(in.token, now),
                     error |-> NoError])
  /\ UNCHANGED <<store, now, ghost>>

\* the clock in halves of the lifetime of an access token
InitJwt ==
  InitWith(OneSlot, [users |-> MaxUsers, tokens |-> MaxTokens, resets |-> MaxResets,
                 audit |-> MaxAudit, ticks |-> JwtMaxTicks, counter |-> MaxCounter,
                 steps |-> {getExpirationDate(jwtAccessExpiresIn, 0) \div 2},
                 emails |-> {EmailA, EmailB}, roles |-> Roles])

NextJwt ==
  \/ Tick
  \/ \E self \in OneSlot :
       \/ SignAccess(self)
       \/ VerifyAccess(self)
       \/ Return(self)

\* every handler, two accounts
InitFrame ==
  InitWith(OneSlot, [users |-> FrameMaxUsers, tokens |-> FrameMaxTokens,
                 resets |-> MaxResets, audit |-> FrameMaxAudit,
                 ticks |-> MaxTicks, counter |-> FrameMaxCounter,
                 steps |-> {lockoutDuration},
                 emails |-> {EmailA, EmailB}, roles |-> {"STUDENT"}])

Spec == Init /\ [][Next]_vars
SpecFrame == InitFrame /\ [][Next]_vars
SpecJwt == InitJwt /\ [][NextJwt]_vars
SpecPassword == InitPassword /\ [][NextPassword]_vars
SpecSoftDelete == InitSoftDelete /\ [][NextSoftDelete]_vars
SpecSignup == InitSignup /\ [][NextSignup]_vars
SpecReset == InitReset /\ [][NextReset]_vars
SpecResetRace == InitResetRace /\ [][NextResetRace]_vars
SpecLoginReset == InitLoginReset /\ [][NextLoginReset]_vars
SpecStatus == InitStatus /\ [][NextStatus]_vars
SpecLock == InitLock /\ [][NextLock]_vars
SpecLockRace == InitLockRace /\ [][NextLockRace]_vars
SpecRefresh == InitRefresh /\ [][NextRefresh]_vars
SpecRace == InitRace /\ [][NextRace]_vars

(***************************************************************************)
(* What the claims speak of.                                               *)
(***************************************************************************)
Done(p, op) == pc[p] = "done" /\ req[p].op = op
Ok(p) == req[p].error = NoError
NoTokensIssued(p) ==
  req[p].access = NoToken /\ req[p].refresh = NoToken /\ req[p].created = 0

\* the presented token is one a handler returned and its exp has not passed
Unexpired(token) == token \in issued /\ token.exp * MsPerSecond > now
\* the record the presented token was issued with is there, unused, its owner active
OwnRecordLive(token) ==
  /\ token.tokenId \in DOMAIN authTokens
  /\ ~authTokens[token.tokenId].used
  /\ users[token.userId].status = "ACTIVE"

\* the call was made with at least maxLoginAttempts wrong-password outcomes in a
\* row behind it, the last of them less than lockoutDuration ago
InLockWindow(p) ==
  /\ req[p].userId # 0
  /\ req[p].streak >= maxLoginAttempts
  /\ now < req[p].lastFail + lockoutDuration

(***************************************************************************)
(* C1..C5: refreshAccessToken                                              *)
(***************************************************************************)
\* C1: a refresh with an issued, unexpired token succeeds and returns a new pair
\* the first time (its record unused, its owner active), and every later refresh
\* with the same token fails and creates no token record.
C1_RefreshTokenIsSingleUse ==
  \A p \in Slots :
    (Done(p, "refresh") /\ Unexpired(req[p].presented)) =>
      IF req[p].wasRedeemed
        THEN ~Ok(p) /\ req[p].created = 0
        ELSE OwnRecordLive(req[p].presented) =>
               (Ok(p) /\ req[p].access # NoToken /\ req[p].refresh # NoToken)

\* C2: of two refreshes of the same valid token that overlap, exactly one
\* succeeds, and they never both mark the same record and create a record each.
C2_ConcurrentRefreshOneWinner ==
  \A p \in Slots : \A q \in Slots :
    (/\ p # q
     /\ Done(p, "refresh")
     /\ Done(q, "refresh")
     /\ q \in req[p].peers
     /\ req[p].presented \in issued) =>
      /\ Ok(p) # Ok(q)
      /\ ~(Ok(p) /\ Ok(q) /\ req[p].marked = req[q].marked)

\* C3: a refresh that succeeds marked the record its token was issued with, and
\* the tokens it returns carry the account id of the token's owner.
C3_RefreshBoundToPresentedToken ==
  \A p \in Slots :
    (Done(p, "refresh") /\ Ok(p) /\ req[p].presented \in issued) =>
      /\ req[p].marked = req[p].presented.tokenId
      /\ req[p].access.userId = req[p].presented.userId
      /\ req[p].refresh.userId = req[p].presented.userId

\* C4: a refresh with a string that was never issued fails, creates no token
\* record and marks no record used.
C4_UnknownRefreshTokenFails ==
  \A p \in Slots :
    (Done(p, "refresh") /\ req[p].presented = BogusToken) =>
      ~Ok(p) /\ req[p].created = 0 /\ req[p].marked = 0

\* C5: a refresh that rests on a record whose expiresAt has passed fails and
\* issues no tokens.
C5_ExpiredRecordNeverAuthorizes ==
  \A p \in Slots :
    (Done(p, "refresh") /\ req[p].found # 0 /\ req[p].foundExpiresAt <= now) =>
      ~Ok(p) /\ NoTokensIssued(p)

(***************************************************************************)
(* C6..C10: the failure counter and the lock                               *)
(***************************************************************************)
\* C6: after maxLoginAttempts wrong-password logins in a row, every login made
\* before lockoutDuration has passed fails with the locked error, with the right
\* password as with a wrong one, and issues no tokens.
C6_LockedWithinWindow ==
  \A p \in Slots :
    (Done(p, "login") /\ InLockWindow(p)) =>
      req[p].error.msg = MsgLocked /\ NoTokensIssued(p)

\* C7: once lockoutDuration has passed since a failed login locked an account,
\* with no successful login since, loginAttempts is still what the last login
\* write made it, and a wrong-password login made then leaves the account locked
\* until a time yet to come.
C7_RelockedAfterWindow ==
  /\ \A u \in DOMAIN users :
       (fails[u].lockedAt # Null /\ now >= fails[u].lockedAt + lockoutDuration) =>
         users[u].loginAttempts = fails[u].written
  /\ \A p \in Slots :
       (/\ Done(p, "login")
        /\ req[p].userId # 0
        /\ req[p].lockedAt # Null
        /\ now >= req[p].lockedAt + lockoutDuration
        /\ ~req[p].pwOk) =>
         /\ req[p].error.msg = MsgInvalidCredentials
         /\ users[req[p].userId].lockedUntil # Null
         /\ users[req[p].userId].lockedUntil > now

\* C8, as claimed: the fifth wrong-password login in a row on a fresh active
\* account itself returns the locked error.
C8_FifthCallReturnsLocked ==
  \A p \in Slots :
    (/\ Done(p, "login")
     /\ req[p].userId # 0
     /\ req[p].user.status = "ACTIVE"
     /\ ~req[p].pwOk
     /\ req[p].streak = maxLoginAttempts - 1) =>
      req[p].error.msg = MsgLocked

\* C8, amended: the fifth wrong-password login in a row on a fresh active account
\* returns the invalid-credentials error and locks the account for
\* lockoutDuration, and a login with the right password at once afterwards
\* returns the locked error and issues no tokens.
C8_FifthCallLocksAccount ==
  \A p \in Slots :
    (/\ Done(p, "login")
     /\ req[p].userId # 0
     /\ req[p].user.status = "ACTIVE") =>
      /\ (~req[p].pwOk /\ req[p].streak = maxLoginAttempts - 1) =>
           /\ req[p].error.msg = MsgInvalidCredentials
           /\ users[req[p].userId].lockedUntil = now + lockoutDuration
      /\ (req[p].pwOk /\ req[p].streak = maxLoginAttempts /\ req[p].lastFail = now) =>
           /\ req[p].error.msg = MsgLocked
           /\ NoTokensIssued(p)

C8_Witness ==
  \E p \in Slots :
    /\ Done(p, "login")
    /\ req[p].userId # 0
    /\ req[p].user.status = "ACTIVE"
    /\ req[p].pwOk
    /\ req[p].streak = maxLoginAttempts
    /\ req[p].lastFail = now
    /\ req[p].error.msg = MsgLocked

\* C9: the account update of a login that passed every check leaves the account
\* with loginAttempts 0, no lock and lastLogin the time of the call, whatever the
\* counter and the lock were before.
C9_SuccessResetsGuard ==
  [][\A p \in Slots :
       (pc[p] = "l_reset" /\ pc'[p] = "tokens") =>
         /\ users'[req[p].userId].loginAttempts = 0
         /\ users'[req[p].userId].lockedUntil = Null
         /\ users'[req[p].userId].lastLogin = now]_vars

C9_Witness ==
  \E p \in Slots :
    /\ pc[p] = "tokens"
    /\ req[p].op = "login"
    /\ req[p].user.loginAttempts >= maxLoginAttempts
    /\ req[p].user.lockedUntil # Null
    /\ users[req[p].userId].loginAttempts = 0
    /\ users[req[p].userId].lockedUntil = Null
    /\ users[req[p].userId].lastLogin = now

\* C10: a step lowers the loginAttempts of an account only if it is the update
\* of a login of that account that passed every check.
C10_OnlySuccessLowersCounter ==
  [][\A u \in DOMAIN users :
       users'[u].loginAttempts < users[u].loginAttempts =>
         \E p \in Slots :
           /\ pc[p] = "l_reset"
           /\ req[p].userId = u
           /\ pc'[p] = "tokens"]_vars

(***************************************************************************)
(* C11..C20                                                                *)
(***************************************************************************)
\* p's login found the account, unlocked, and counted a wrong password
CountedFailure(p) ==
  /\ Done(p, "login")
  /\ req[p].userId # 0
  /\ ~req[p].pwOk
  /\ req[p].error.msg = MsgInvalidCredentials

\* C11: two wrong-password logins of one unlocked account that overlap, both
\* having read the counter at c, leave it at c + 2, and leave the account locked
\* when c + 2 reaches maxLoginAttempts.
C11_NoLostIncrement ==
  \A p \in Slots : \A q \in Slots :
    (/\ p # q
     /\ CountedFailure(p)
     /\ CountedFailure(q)
     /\ req[p].userId = req[q].userId
     /\ req[p].user.loginAttempts = req[q].user.loginAttempts) =>
      LET u == req[p].userId
          c == req[p].user.loginAttempts
      IN /\ users[u].loginAttempts = c + 2
         /\ (c + 2 >= maxLoginAttempts) =>
              (users[u].lockedUntil # Null /\ users[u].lockedUntil > now)

\* C12: a login that returns tokens is one of an active account; a login with
\* the right password of an unlocked account of any other status fails with the
\* error of that status, issues no tokens, creates no token record and leaves
\* loginAttempts, lockedUntil and lastLogin as they were.
C12_OnlyActiveLogsIn ==
  \A p \in Slots :
    (Done(p, "login") /\ req[p].userId # 0) =>
      LET u == req[p].userId
          was == req[p].user
      IN /\ Ok(p) => was.status = "ACTIVE"
         /\ (/\ req[p].pwOk
             /\ was.status # "ACTIVE"
             /\ was.deletedAt = Null
             /\ ~(was.lockedUntil # Null /\ was.lockedUntil > now)) =>
              /\ req[p].error.msg =
                   (CASE was.status = "PENDING_APPROVAL" ->
                           "Your account is pending approval. Please wait for admin confirmation"
                      [] was.status = "SUSPENDED" -> "Your account has been suspended"
                      [] was.status = "DELETED" -> "Your account has been deleted"
                      [] OTHER -> "Your account status does not allow login")
              /\ NoTokensIssued(p)
              /\ users[u].loginAttempts = was.loginAttempts
              /\ users[u].lockedUntil = was.lockedUntil
              /\ users[u].lastLogin = was.lastLogin

C12_Witness ==
  \E p \in Slots :
    /\ Done(p, "login")
    /\ req[p].userId # 0
    /\ req[p].pwOk
    /\ req[p].user.status = "SUSPENDED"
    /\ req[p].user.loginAttempts > 0
    /\ req[p].error.msg = "Your account has been suspended"
    /\ users[req[p].userId].loginAttempts = req[p].user.loginAttempts

\* C13: every step that changes the password of an account is the transaction
\* of a resetPassword call, and the same step removes the reset record the call
\* consumed and every refresh record the account had; a transaction that fails
\* changes nothing. So no state has the new password next to a refresh record
\* from before the reset or next to the consumed reset record.
C13_ResetIsOneStep ==
  [][/\ \A u \in DOMAIN users :
          users'[u].passwordHash # users[u].passwordHash =>
            /\ \A t \in DOMAIN authTokens' : authTokens'[t].userId # u
            /\ \E p \in Slots :
                 /\ pc[p] = "p_tx" /\ pc'[p] = "done"
                 /\ req[p].userId = u
                 /\ req[p].found \in DOMAIN passwordResets
                 /\ req[p].found \notin DOMAIN passwordResets'
                 /\ req'[p].error = NoError
     /\ \A p \in Slots :
          (pc[p] = "p_tx" /\ pc'[p] = "done" /\ req'[p].error # NoError) =>
            UNCHANGED <<users, passwordResets, authTokens>>]_vars

\* one reset went through and took the refresh record of the account with it,
\* the reset that raced it for the same record was rolled back
C13_Witness ==
  \E p \in Slots : \E q \in Slots :
    /\ Done(p, "reset") /\ Ok(p)
    /\ users[req[p].userId].passwordHash = req[p].newPasswordHash
    /\ req[p].found \notin DOMAIN passwordResets
    /\ \E token \in issued :
         token.userId = req[p].userId /\ token.tokenId \notin DOMAIN authTokens
    /\ Done(q, "reset")
    /\ req[q].found = req[p].found
    /\ req[q].error.msg = MsgRecordNotFound

\* C14: a refresh that presents a refresh token of an account whose refresh
\* records a password reset has removed since (nothing else removes a record
\* here) fails as used or as not found and issues no tokens, whatever records
\* other accounts hold.
C14_ResetRevokesRefresh ==
  \A p \in Slots :
    (/\ Done(p, "refresh")
     /\ req[p].presented \in issued
     /\ req[p].presented.tokenId \notin DOMAIN authTokens
     /\ users[req[p].presented.userId].passwordHash = hashPassword(PwStrong2)) =>
      /\ ~Ok(p)
      /\ req[p].error.msg \in {MsgTokenUsed, MsgTokenInvalid}
      /\ NoTokensIssued(p)

\* C15: a resetPassword call that changes a password was given the plaintext
\* of the reset record it consumed, and a call given a token that was never
\* handed out does not succeed.
C15_ResetNeedsItsToken ==
  \A p \in Slots :
    Done(p, "reset") =>
      /\ Ok(p) => req[p].token = generateRandomToken("reset", req[p].found)
      /\ req[p].token = BogusResetToken => ~Ok(p)

\* C16: generatePasswordResetToken for an email that no account has returns, in
\* its one step, without an error and with a token made as the token for an
\* account is made, and writes nothing: accounts, token records, reset records
\* and the audit log stay as they were.
C16_UnknownEmailWritesNothing ==
  [][\A p \in Slots :
       (/\ pc[p] = "idle"
        /\ req'[p].op = "forgot"
        /\ req'[p].userId = 0) =>
         /\ pc'[p] = "done"
         /\ req'[p].error = NoError
         /\ \E n \in 0 .. ResetMaxResets : req'[p].token = generateRandomToken("reset", n)
         /\ req'[p].created = 0
         /\ UNCHANGED <<users, authTokens, passwordResets, auditLogs, nextId>>]_vars

\* such a call returned while an account with a reset record was there
C16_Witness ==
  \E p \in Slots :
    /\ Done(p, "forgot")
    /\ req[p].userId = 0
    /\ Ok(p)
    /\ Len(users) > 0
    /\ DOMAIN passwordResets # {}

\* the step in which a generatePasswordResetToken call for an account returns
\* leaves the account with one reset record, the new one, expiring an hour on
C17_OneRecordAnHourOn ==
  \A p \in Slots :
    (pc[p] = "g_create" /\ pc'[p] = "done") =>
      LET u == req[p].userId
          own == {id \in DOMAIN passwordResets' : passwordResets'[id].userId = u}
      IN /\ own = {req'[p].created}
         /\ passwordResets'[req'[p].created].expiresAt = now + resetTokenTtl

\* a resetPassword call that goes through, in a store of one account, was not
\* given a reset token handed out before the record it consumed
C17_EarlierTokenIsDead ==
  \A q \in Slots :
    (/\ pc[q] = "p_tx" /\ pc'[q] = "done"
     /\ req'[q].error = NoError
     /\ Len(users) = 1) =>
      ~(req[q].token.random = "reset" /\ req[q].token.n < req[q].found)

\* C17: when generatePasswordResetToken for an account returns, the account has
\* exactly one reset record, the new one, expiring one hour after it was made,
\* and from then on no reset token handed out earlier for the account gets a
\* password reset through.
C17_ForgotSupersedes == [][C17_OneRecordAnHourOn /\ C17_EarlierTokenIsDead]_vars

\* C18: a signup with the role ADMIN is turned down in its one step, whatever
\* the address and the passwords given with it, and writes no account and no
\* token record; no account has the role ADMIN.
C18_AdminNeverSignsUp ==
  [][/\ \A p \in Slots :
          (pc[p] = "idle" /\ req'[p].op = "signup" /\ req'[p].role = "ADMIN") =>
            /\ pc'[p] = "done"
            /\ req'[p].error.msg = "users cannot self-register"
            /\ NoTokensIssued(p)'
            /\ UNCHANGED <<users, authTokens, passwordResets, auditLogs, nextId>>
     /\ \A u \in DOMAIN users' : users'[u].role # "ADMIN"]_vars

C18_Witness ==
  \E p \in Slots :
    /\ Done(p, "signup")
    /\ req[p].role = "ADMIN"
    /\ req[p].error.msg = "users cannot self-register"
    /\ req[p].userId = 0

\* C19: the account a signup creates has the status PENDING_APPROVAL when the
\* role is MENTOR and ACTIVE for every other role, a failure counter of 0 and
\* no lock.
C19_NewAccountDefaults ==
  [][\A p \in Slots :
       (pc[p] = "s_create" /\ pc'[p] = "tokens") =>
         LET new == users'[Len(users')] IN
         /\ Len(users') = Len(users) + 1
         /\ new.role = req[p].role
         /\ new.role # "ADMIN"
         /\ new.status = (IF new.role = "MENTOR" THEN "PENDING_APPROVAL" ELSE "ACTIVE")
         /\ new.loginAttempts = 0
         /\ new.lockedUntil = Null]_vars

\* a signup of a mentor went through
C19_Witness ==
  \E p \in Slots :
    /\ Done(p, "signup") /\ Ok(p)
    /\ req[p].role = "MENTOR"
    /\ users[req[p].userId].status = "PENDING_APPROVAL"
    /\ users[req[p].userId].loginAttempts = 0

\* C20: no two accounts that are not deleted have the same address, and every
\* address stored is in its normal form, so that addresses that differ in case
\* or in blanks around them are one address; signups may overlap as they like.
C20_OneAccountPerEmail ==
  /\ \A i \in DOMAIN users : users[i].email = normalizeEmail(users[i].email)
  /\ \A i \in DOMAIN users : \A j \in DOMAIN users :
       (i # j /\ users[i].deletedAt = Null /\ users[j].deletedAt = Null) =>
         users[i].email # users[j].email

\* of two signups that both found the address free, the create of the second
\* was turned down
C20_Witness ==
  \E p \in Slots : \E q \in Slots :
    /\ p # q
    /\ Done(p, "signup")
    /\ req[p].error.msg = MsgUniqueConstraint
    /\ pc[q] \in {"tokens", "done"} /\ req[q].op = "signup" /\ req[q].userId # 0
    /\ users[req[q].userId].email = normalizeEmail(EmailAShout)

(* C21..C30 *)
\* C21: a signup that passed every check, for an address that only a
\* soft-deleted account holds, creates the new account and goes on to its
\* token pair.
C21_SignupOverSoftDeleted ==
  [][\A p \in Slots :
       (/\ pc[p] = "s_create" /\ pc'[p] # "s_create"
        /\ FindUserByEmail(req[p].email).id # 0
        /\ FindUserByEmail(req[p].email).deletedAt # Null) =>
         /\ pc'[p] = "tokens"
         /\ Len(users') = Len(users) + 1
         /\ users'[Len(users')].email = req[p].email]_vars

\* C22: the step of logout(A) leaves A with no unused refresh record, changes
\* of A's records nothing but used and usedAt of those that were unused, leaves
\* the records of every other account as they were, and changes no record at
\* all when A had no unused record, as after a first logout(A).
C22_LogoutRevokesOwnOnly ==
  [][\A p \in Slots :
       (pc[p] = "idle" /\ req'[p].op = "logout") =>
         LET u == req'[p].userId IN
         /\ DOMAIN authTokens' = DOMAIN authTokens
         /\ \A id \in DOMAIN authTokens :
              IF authTokens[id].userId = u /\ ~authTokens[id].used
              THEN /\ authTokens'[id].used
                   /\ authTokens'[id] =
                        [authTokens[id] EXCEPT !.used = TRUE, !.usedAt = now]
              ELSE authTokens'[id] = authTokens[id]
         /\ (\A id \in DOMAIN authTokens :
               authTokens[id].userId = u => authTokens[id].used) =>
              authTokens' = authTokens
         /\ UNCHANGED <<users, passwordResets, auditLogs, nextId>>]_vars

\* a logout returned, the account's record is used, another account's is not
C22_Witness ==
  \E p \in Slots :
    /\ Done(p, "logout")
    /\ \E id \in DOMAIN authTokens :
         authTokens[id].userId = req[p].userId /\ authTokens[id].used
           /\ authTokens[id].usedAt = now
    /\ \E id \in DOMAIN authTokens :
         authTokens[id].userId # req[p].userId /\ ~authTokens[id].used

\* C23: a refresh that presents a refresh token whose record a logout has
\* marked used (no refresh went through before it, so nothing else marked it)
\* fails and issues no tokens, whatever records other accounts hold.
C23_LogoutRevokesRefresh ==
  \A p \in Slots :
    (/\ Done(p, "refresh")
     /\ req[p].presented \in issued
     /\ ~req[p].wasRedeemed
     /\ redeemed \subseteq {req[p].presented}
     /\ req[p].presented.tokenId \in DOMAIN authTokens
     /\ authTokens[req[p].presented.tokenId].used
     /\ req[p].marked # req[p].presented.tokenId) =>
      /\ ~Ok(p)
      /\ NoTokensIssued(p)

\* the five rules, and the message of each rule the password breaks
RuleViolations(password) ==
  (IF Len(password) < 8
     THEN {"Password must be at least 8 characters long"} ELSE {})
  \cup (IF \A i \in DOMAIN password : password[i] \notin Range(UpperLetters)
     THEN {"Password must contain at least one uppercase letter"} ELSE {})
  \cup (IF \A i \in DOMAIN password : password[i] \notin Range(LowerLetters)
     THEN {"Password must contain at least one lowercase letter"} ELSE {})
  \cup (IF \A i \in DOMAIN password : password[i] \notin DigitChars
     THEN {"Password must contain at least one number"} ELSE {})
  \cup (IF \A i \in DOMAIN password : password[i] \notin SpecialChars
     THEN {"Password must contain at least one special character"} ELSE {})

\* the result names every rule the password breaks, each once, and is valid
\* when it breaks none
NamesEveryRule(password, result) ==
  /\ result.isValid = (RuleViolations(password) = {})
  /\ Range(result.errors) = RuleViolations(password)
  /\ Len(result.errors) = Cardinality(RuleViolations(password))

C25_AccessTokenRoundTrip ==
  \A p \in Slots :
    Done(p, "verify") =>
      LET r == req[p]
          inWindow == r.at \div MsPerSecond < r.token.exp
      IN /\ (r.kind = "issued" /\ inWindow) =>
              /\ r.result.ok
              /\ r.result.decoded.userId = r.payload.userId
              /\ r.result.decoded.email = r.payload.email
              /\ r.result.decoded.role = r.payload.role
         /\ (r.kind = "issued" /\ ~inWindow) =>
              ~r.result.ok /\ r.result.error = "Access token has expired"
         /\ r.kind \in {"tampered", "refresh-secret"} =>
              ~r.result.ok /\ r.result.error = "Invalid access token"
         /\ "Access token has expired" # "Invalid access token"

\* a token was verified after its window, and the clock had moved since it
\* was made
C25_Witness ==
  \E p \in Slots :
    /\ Done(p, "verify")
    /\ req[p].kind = "issued"
    /\ req[p].at \div MsPerSecond > req[p].token.exp
    /\ req[p].token.iat > 0
    /\ req[p].result.error = "Access token has expired"

\* C26: the step of login that writes the audit event leaves the result of the
\* login, the account and the token records as they are, whether the write
\* goes through or fails: the login returns the tokens it made, the counter is 0,
\* the lock is gone and the new refresh record is there.
C26_AuditFailureIsHarmless ==
  [][\A p \in Slots :
       (pc[p] = "l_audit" /\ pc'[p] # "l_audit") =>
         /\ pc'[p] = "done"
         /\ req'[p] = req[p]
         /\ req'[p].error = NoError
         /\ req'[p].access # NoToken /\ req'[p].refresh # NoToken
         /\ req'[p].created \in DOMAIN authTokens'
         /\ users'[req[p].userId].loginAttempts = 0
         /\ users'[req[p].userId].lockedUntil = Null
         /\ UNCHANGED <<users, authTokens, passwordResets, nextId>>]_vars

\* a login returned its tokens and the audit log has no event of it
C26_Witness ==
  \E p \in Slots :
    /\ Done(p, "login") /\ Ok(p)
    /\ req[p].refresh # NoToken
    /\ \A i \in DOMAIN auditLogs : auditLogs[i].userId # req[p].userId

\* C27: when a signup has returned its tokens the audit log has exactly one
\* event of the new account, and a signup that failed with no account made
\* has left no event.
C27_SignupAppendsOneEvent ==
  \A p \in Slots :
    Done(p, "signup") =>
      IF Ok(p)
      THEN Cardinality({i \in DOMAIN auditLogs :
                          auditLogs[i].userId = req[p].userId}) = 1
      ELSE req[p].userId = 0 => auditLogs = <<>>

\* C28: no step takes a refresh record from used to unused: a record that is
\* used and is still there after the step is used after it.
C28_UsedStaysUsed ==
  [][\A id \in DOMAIN authTokens :
       (authTokens[id].used /\ id \in DOMAIN authTokens') =>
         authTokens'[id].used]_vars

\* a refresh marked a record that was used already when it came to mark it
C28_Witness ==
  \E p \in Slots : \E q \in Slots : \E id \in DOMAIN authTokens :
    /\ p # q
    /\ Done(p, "refresh") /\ req[p].marked = id
    /\ pc[q] \in {"tokens", "done"} /\ req[q].op = "refresh" /\ req[q].marked = id
    /\ authTokens[id].used

\* C29: a login with an address that no account has, or that only a
\* soft-deleted account has, fails in its one step with the error a login with
\* a wrong password of an unlocked account fails with, and writes nothing:
\* accounts, token records, reset records and the audit log stay as they were.
C29_UnknownLooksLikeWrongPassword ==
  [][\A p \in Slots :
       /\ (/\ pc[p] = "idle"
           /\ req'[p].op = "login"
           /\ (req'[p].userId = 0 \/ req'[p].user.deletedAt # Null)) =>
            /\ pc'[p] = "done"
            /\ req'[p].error = Err(MsgInvalidCredentials)
            /\ NoTokensIssued(p)'
            /\ UNCHANGED <<users, authTokens, passwordResets, auditLogs, nextId, fails>>
       /\ (pc[p] = "l_fail" /\ pc'[p] # "l_fail") =>
            /\ pc'[p] = "done"
            /\ req'[p].error = Err(MsgInvalidCredentials)]_vars

\* a login with the password of a soft-deleted account was turned down so,
\* the account having failures counted from before
C29_Witness ==
  \E p \in Slots :
    /\ Done(p, "login")
    /\ req[p].userId # 0
    /\ req[p].user.deletedAt # Null
    /\ req[p].pwOk
    /\ req[p].error = Err(MsgInvalidCredentials)
    /\ users[req[p].userId].loginAttempts > 0

\* C30: a login with the right password of an active account whose lockedUntil
\* has passed succeeds with nothing done to unlock it: it returns tokens and
\* leaves loginAttempts at 0 and lockedUntil null.
C30_LockEndsByItself ==
  \A p \in Slots :
    (/\ Done(p, "login")
     /\ req[p].userId # 0
     /\ req[p].pwOk
     /\ req[p].user.status = "ACTIVE"
     /\ req[p].user.deletedAt = Null
     /\ req[p].user.lockedUntil # Null
     /\ req[p].user.lockedUntil <= now) =>
      /\ Ok(p)
      /\ req[p].access # NoToken /\ req[p].refresh # NoToken
      /\ req[p].created \in DOMAIN authTokens
      /\ users[req[p].userId].loginAttempts = 0
      /\ users[req[p].userId].lockedUntil = Null

\* such a login went through, of an account locked after maxLoginAttempts
\* wrong passwords
C30_Witness ==
  \E p \in Slots :
    /\ Done(p, "login") /\ Ok(p)
    /\ req[p].pwOk
    /\ req[p].user.lockedUntil # Null
    /\ req[p].user.lockedUntil <= now
    /\ req[p].user.loginAttempts >= maxLoginAttempts
    /\ users[req[p].userId].loginAttempts = 0
    /\ users[req[p].userId].lockedUntil = Null

(* C31..C40 *)
\* C31: a refresh that presents the refresh token of an account that is not
\* active fails, creates no token record and does not mark the record of the
\* presented token; a refresh that succeeds issues its tokens for an active
\* account.
C31_RefreshOnlyForActive ==
  \A p \in Slots :
    Done(p, "refresh") =>
      /\ Ok(p) => users[req[p].userId].status = "ACTIVE"
      /\ (/\ req[p].presented \in issued
          /\ users[req[p].presented.userId].status # "ACTIVE") =>
           /\ ~Ok(p)
           /\ NoTokensIssued(p)
           /\ req[p].marked # req[p].presented.tokenId

\* the slot took the step, and the request it is serving
Moved(p) == <<pc[p], req[p]>> # <<pc'[p], req'[p]>>
OpOfStep(p) == IF req'[p].op # "none" THEN req'[p].op ELSE req[p].op

\* C32: no step of a login or of a signup changes or removes a refresh record
\* that is there, of the same account or of another: the new record is added
\* to them.
C32_IssuingRevokesNothing ==
  [][\A p \in Slots :
       (Moved(p) /\ OpOfStep(p) \in {"login", "signup"}) =>
         \A id \in DOMAIN authTokens :
           id \in DOMAIN authTokens' /\ authTokens'[id] = authTokens[id]]_vars

\* a login returned its tokens; an earlier record of the account and a record
\* of another account are there unused
C32_Witness ==
  \E p \in Slots :
    /\ Done(p, "login") /\ Ok(p)
    /\ req[p].created \in DOMAIN authTokens
    /\ \E id \in DOMAIN authTokens :
         /\ id # req[p].created
         /\ authTokens[id].userId = req[p].userId
         /\ ~authTokens[id].used
    /\ \E id \in DOMAIN authTokens :
         authTokens[id].userId # req[p].userId /\ ~authTokens[id].used

\* C33: no step of any handler changes the role, the status or the address of
\* an account that is there, and none removes an account: the accounts of a
\* state are accounts of the next.
C33_AccountIdentityIsKept ==
  [][\A u \in DOMAIN users :
       /\ u \in DOMAIN users'
       /\ users'[u].id = users[u].id
       /\ users'[u].role = users[u].role
       /\ users'[u].status = users[u].status
       /\ users'[u].email = users[u].email]_vars

\* an account that has logged in, failed a login and had its password reset,
\* next to another account
C33_Witness ==
  \E p \in Slots :
    /\ Done(p, "reset") /\ Ok(p)
    /\ Len(users) > 1
    /\ users[req[p].userId].passwordHash = req[p].newPasswordHash
    /\ users[req[p].userId].lastLogin # Null
    /\ users[req[p].userId].loginAttempts > 0
    /\ users[req[p].userId].status = "ACTIVE"

\* the account was locked when the login p was made
LockedAtCall(p) ==
  req[p].user.lockedUntil # Null /\ req[p].user.lockedUntil > now

\* C34: a login of an account that is locked fails with the locked error
\* whatever the status of the account and the password given; a login with a
\* wrong password of an account that is not locked and not active fails with
\* 'Invalid email or password', not with the error of the status, and counts
\* the failure.
C34_LockThenPasswordThenStatus ==
  \A p \in Slots :
    (Done(p, "login") /\ req[p].userId # 0 /\ req[p].user.deletedAt = Null) =>
      /\ LockedAtCall(p) =>
           /\ req[p].error =
                ErrLocked(CeilDiv(req[p].user.lockedUntil - now, MsPerMinute))
           /\ NoTokensIssued(p)
      /\ (~LockedAtCall(p) /\ ~req[p].pwOk /\ req[p].user.status # "ACTIVE") =>
           /\ req[p].error = Err(MsgInvalidCredentials)
           /\ users[req[p].userId].loginAttempts = req[p].user.loginAttempts + 1

\* a wrong password of a suspended account was counted
C34_Witness ==
  \E p \in Slots :
    /\ Done(p, "login")
    /\ req[p].userId # 0
    /\ ~LockedAtCall(p)
    /\ ~req[p].pwOk
    /\ req[p].user.status = "SUSPENDED"
    /\ req[p].error = Err(MsgInvalidCredentials)
    /\ users[req[p].userId].loginAttempts = req[p].user.loginAttempts + 1

\* C35: a resetPassword call whose password and confirmation differ, or whose
\* password fails the strength rules, is rejected with that validation error
\* before the store is touched: no reset record is looked up and no account,
\* reset record, refresh record or audit entry changes, whether or not an
\* unexpired reset record exists.
C35_ValidationBeforeStore ==
  [][\A p \in Slots, token \in ResetTokens,
        newPassword \in ResetPasswords, confirmPassword \in ResetPasswords :
       (/\ ResetFind(p, token, newPassword, confirmPassword)
        /\ \/ newPassword # confirmPassword
           \/ ~validatePasswordStrength(newPassword).isValid) =>
         /\ pc'[p] = "done"
         /\ req'[p].found = 0
         /\ req'[p].userId = 0
         /\ req'[p].error =
              IF newPassword # confirmPassword
                THEN Err("Passwords do not match")
                ELSE ErrJoined(validatePasswordStrength(newPassword).errors)
         /\ UNCHANGED <<users, passwordResets, authTokens, auditLogs, nextId>>]_vars

\* a weak password has been rejected while an unexpired reset record exists
C35_Witness ==
  \E p \in Slots :
    /\ Done(p, "reset")
    /\ req[p].error = ErrJoined(validatePasswordStrength(PwWeak).errors)
    /\ ResetCandidates(now) # {}

\* C36: a login that is turned away because the account is locked changes
\* nothing: the account rows (loginAttempts, lockedUntil and lastLogin among
\* their fields), the token records, the reset records and the audit log are
\* what they were before the call.
C36_LockedLoginChangesNothing ==
  [][\A p \in Slots :
       (/\ pc[p] = "idle"
        /\ req'[p].op = "login"
        /\ req'[p].error.msg = ErrLocked(0).msg) =>
         /\ pc'[p] = "done"
         /\ UNCHANGED <<users, authTokens, passwordResets, auditLogs, nextId>>]_vars

\* a login with the right password has been turned away by the lock
C36_Witness ==
  \E p \in Slots :
    /\ Done(p, "login")
    /\ req[p].error.msg = ErrLocked(0).msg
    /\ req[p].pwOk
    /\ users[req[p].userId].lockedUntil > now

\* C37: in every state, under any interleaving of logins, an account whose
\* lockedUntil is set has loginAttempts of at least maxLoginAttempts: an
\* account with fewer counted failures is never locked.
C37_LockedOnlyAtFiveFailures ==
  \A u \in DOMAIN users :
    users[u].lockedUntil # Null => users[u].loginAttempts >= maxLoginAttempts

\* the account is locked after two logins that overlapped: both have failed
\* and both had read the same counter
C37_Witness ==
  \E u \in DOMAIN users, p \in Slots, q \in Slots :
    /\ p # q
    /\ users[u].lockedUntil # Null
    /\ Done(p, "login") /\ Done(q, "login")
    /\ req[p].userId = u /\ req[q].userId = u
    /\ req[p].error = Err(MsgInvalidCredentials)
    /\ req[q].error = Err(MsgInvalidCredentials)
    /\ ~req[p].pwOk /\ ~req[q].pwOk
    /\ req[p].user.loginAttempts = req[q].user.loginAttempts

\* C38: under any interleaving of a login of an account with a resetPassword
\* of the same account, once the reset has committed the account has no unused
\* refresh record that was issued by a login which verified the password the
\* account had before the reset.
C38_NoSessionFromOldPassword ==
  \A p \in Slots :
    (/\ req[p].op = "login"
     /\ req[p].created \in DOMAIN authTokens
     /\ ~authTokens[req[p].created].used) =>
       req[p].user.passwordHash = users[req[p].userId].passwordHash

\* C39: under any interleaving of generatePasswordResetToken calls for one
\* account, once every call has completed the account has at most one reset
\* record.
C39_OneResetRecordPerAccount ==
  (\A p \in Slots : pc[p] \notin {"g_delete", "g_create"}) =>
    \A u \in DOMAIN users :
      Cardinality({id \in DOMAIN passwordResets : passwordResets[id].userId = u}) <= 1

====
